---- MODULE Spec2Model ----
(***************************************************************************)
(* Model of utils/models.py: queryset and manager helpers layered on the   *)
(* Django ORM.  Every helper is a function of its receiver and arguments;  *)
(* a behaviour is one call: Init draws the receiver and the arguments, the *)
(* action of the called helper runs it to completion (pc "call" to "done") *)
(* and records its outcome (returned value or raised exception), the       *)
(* filter() calls it made and the objects it saved.                        *)
(*                                                                         *)
(* Python strings are sequences of tokens, every underscore a token of    *)
(* its own (<<"timestamp", "_", "_", "lt">> is 'timestamp__lt'), so that   *)
(* formatting, prefix tests and lookup parsing are computed, not assumed.  *)
(***************************************************************************)
EXTENDS Integers, Sequences, FiniteSets, TLC

VARIABLES op, self, args, pc, result, calls, saved

vars == <<op, self, args, pc, result, calls, saved>>

(***************************************************************************)
(* Bounds of the model.                                                    *)
(***************************************************************************)
MaxPk == 3        \* primary keys of the table are 1..MaxPk
MaxTs == 2        \* timestamps of the table are 0..MaxTs
MaxArgs == 2      \* keys given to request(), req.GET and kwargs together
MaxData == 3      \* keys of the data given to put()
MaxKwargs == 2    \* lookups given to get_or_none and to the filters

(***************************************************************************)
(* Python values: None, ints, strings, and the state of a local variable   *)
(* that no assignment has bound yet.                                       *)
(***************************************************************************)
PyNone == [ty |-> "none", n |-> 0, s |-> <<>>]
PyInt(k) == [ty |-> "int", n |-> k, s |-> <<>>]
PyStr(toks) == [ty |-> "str", n |-> 0, s |-> toks]
Unbound == [ty |-> "unbound", n |-> 0, s |-> <<>>]

\* bool(v): None, 0 and '' are false
Truthy(v) ==
    CASE v.ty = "none" -> FALSE
      [] v.ty = "int" -> v.n # 0
      [] v.ty = "str" -> v.s # <<>>
      [] OTHER -> FALSE

Digits == {"0", "1", "2", "3", "4", "5", "6", "7", "8", "9"}

DigitVal(t) ==
    CASE t = "0" -> 0 [] t = "1" -> 1 [] t = "2" -> 2 [] t = "3" -> 3
      [] t = "4" -> 4 [] t = "5" -> 5 [] t = "6" -> 6 [] t = "7" -> 7
      [] t = "8" -> 8 [] OTHER -> 9

IsNumeral(toks) == Len(toks) > 0 /\ \A i \in 1..Len(toks) : toks[i] \in Digits

RECURSIVE ParseInt(_)
ParseInt(toks) ==
    IF Len(toks) = 0 THEN 0
    ELSE ParseInt(SubSeq(toks, 1, Len(toks) - 1)) * 10 + DigitVal(toks[Len(toks)])

\* int(v) succeeds on ints and on numerals; int('') and int('x') raise ValueError
IntOk(v) == v.ty = "int" \/ (v.ty = "str" /\ IsNumeral(v.s))
IntOf(v) == IF v.ty = "int" THEN v.n ELSE ParseInt(v.s)

K(name) == <<name>>

(***************************************************************************)
(* Outcomes of a call, and dicts (functions from strings to values).       *)
(***************************************************************************)
Return(v) == [kind |-> "return", exc |-> "", val |-> v]
Raise(e) == [kind |-> "raise", exc |-> e, val |-> PyNone]
NoResult == [kind |-> "none", exc |-> "", val |-> PyNone]

EmptyDict == [k \in {} |-> PyNone]
DictGet(d, k, default) == IF k \in DOMAIN d THEN d[k] ELSE default
DictDel(d, k) == [x \in DOMAIN d \ {k} |-> d[x]]
Dicts(keys, vals, maxn) ==
    UNION {[ks -> vals] : ks \in {s \in SUBSET keys : Cardinality(s) <= maxn}}

\* the exception hierarchy the except clauses match against
ExcMatches(exc, cls) ==
    \/ exc = cls
    \/ (exc = "DoesNotExist" /\ cls = "ObjectDoesNotExist")

(***************************************************************************)
(* The table behind a queryset: rows in primary-key order.                 *)
(***************************************************************************)
RECURSIVE TablesUpTo(_)
TablesUpTo(k) ==
    IF k = 0 THEN {<<>>}
    ELSE LET prev == TablesUpTo(k - 1)
         IN prev \cup {Append(t, [pk |-> k, timestamp |-> ts]) :
                            t \in prev, ts \in 0..MaxTs}

QuerySets == TablesUpTo(MaxPk)

(***************************************************************************)
(* QuerySet.filter of the framework, given lookups: a lookup key is       *)
(* field[__type]; an unknown field or type raises FieldError, a value that *)
(* is no number raises ValueError, and the rows matching every lookup are  *)
(* kept in order.                                                          *)
(***************************************************************************)
LookupField(key) == IF Len(key) >= 1 THEN key[1] ELSE ""
LookupType(key) ==
    IF Len(key) = 1 THEN "exact"
    ELSE IF Len(key) = 4 /\ key[2] = "_" /\ key[3] = "_" THEN key[4] ELSE ""
LookupKeyOk(key) ==
    /\ LookupField(key) \in {"pk", "id", "timestamp"}
    /\ LookupType(key) \in {"exact", "lt", "lte", "gt", "gte"}
LookupValOk(key, v) == IntOk(v) \/ (v.ty = "none" /\ LookupType(key) = "exact")
FieldOf(row, f) == IF f = "timestamp" THEN row.timestamp ELSE row.pk
RowMatches(row, key, v) ==
    LET x == FieldOf(row, LookupField(key))
    IN CASE v.ty = "none" -> FALSE
         [] LookupType(key) = "lt" -> x < IntOf(v)
         [] LookupType(key) = "lte" -> x <= IntOf(v)
         [] LookupType(key) = "gt" -> x > IntOf(v)
         [] LookupType(key) = "gte" -> x >= IntOf(v)
         [] OTHER -> x = IntOf(v)

Filter(qs, lookups) ==
    IF \E k \in DOMAIN lookups : ~LookupKeyOk(k) THEN Raise("FieldError")
    ELSE IF \E k \in DOMAIN lookups : ~LookupValOk(k, lookups[k])
         THEN Raise("ValueError")
    ELSE LET Keep(row) == \A k \in DOMAIN lookups : RowMatches(row, k, lookups[k])
         IN Return(SelectSeq(qs, Keep))

\* QuerySet.get of the framework, as get_or_none calls it
Get(qs, kwargs) ==
    LET f == Filter(qs, kwargs)
    IN IF f.kind = "raise" THEN f
       ELSE IF Len(f.val) = 1 THEN Return(f.val[1])
       ELSE IF Len(f.val) = 0 THEN Raise("DoesNotExist")
       ELSE Raise("MultipleObjectsReturned")

(***************************************************************************)
(* QuerySetMixin.get_or_none                                               *)
(***************************************************************************)
\* variant: a bare except, every exception of get answered with None
GetOrNoneCatchAll(qs, kwargs) ==
    LET r == Get(qs, kwargs)
    IN IF r.kind = "raise" THEN Return(PyNone) ELSE r

get_or_none(qs, kwargs) ==
    LET r == Get(qs, kwargs)
    IN IF r.kind = "raise" /\ r.exc = "DoesNotExist" THEN Return(PyNone) ELSE r


(***************************************************************************)
(* VerifyUniqueMixin.x_verify_unique.  A query is what the caller passes:  *)
(* nothing (the default), a callable returning None, a callable doing a    *)
(* get on a queryset, or a callable raising a given exception.             *)
(***************************************************************************)
DefaultQuery == [kind |-> "default", qs |-> <<>>, kwargs |-> EmptyDict, exc |-> ""]
NoneQuery == [kind |-> "none", qs |-> <<>>, kwargs |-> EmptyDict, exc |-> ""]
GetQuery(qs, kw) == [kind |-> "get", qs |-> qs, kwargs |-> kw, exc |-> ""]
RaisingQuery(e) == [kind |-> "raises", qs |-> <<>>, kwargs |-> EmptyDict, exc |-> e]

\* query(): the default, lambda x: None, is called with no argument
CallQuery(q) ==
    CASE q.kind = "default" -> Raise("TypeError")
      [] q.kind = "none" -> Return(PyNone)
      [] q.kind = "get" -> Get(q.qs, q.kwargs)
      [] OTHER -> Raise(q.exc)

\* variant: the non-existence exception re-raised like the multiple-results one
VerifyUniqueReraiseAll(selfpk, query) ==
    LET r == CallQuery(query)
    IN IF r.kind = "raise" /\ ExcMatches(r.exc, "ObjectDoesNotExist")
       THEN Raise("IntegrityError")
       ELSE IF r.kind = "raise" /\ ExcMatches(r.exc, "MultipleObjectsReturned")
       THEN Raise("IntegrityError")
       ELSE IF r.kind = "raise" THEN r
       ELSE IF r.val # PyNone /\ selfpk # PyInt(r.val.pk)
       THEN Raise("IntegrityError")
       ELSE Return(PyNone)

x_verify_unique(selfpk, query) ==
    LET r == CallQuery(query)
    IN IF r.kind = "raise" /\ ExcMatches(r.exc, "ObjectDoesNotExist")
       THEN Return(PyNone)
       ELSE IF r.kind = "raise" /\ ExcMatches(r.exc, "MultipleObjectsReturned")
       THEN Raise("IntegrityError")
       ELSE IF r.kind = "raise" THEN r
       ELSE IF r.val # PyNone /\ selfpk # PyInt(r.val.pk)
       THEN Raise("IntegrityError")
       ELSE Return(PyNone)

(***************************************************************************)
(* QuerySetManager: get_query_set and __getattr__.  A manager is the set   *)
(* of attribute names ordinary lookup finds on it, and whether its model   *)
(* has an attribute QuerySet; a queryset class is the set of its names.    *)
(***************************************************************************)
ManagerAttrs ==
    {<<"model">>, <<"_", "db">>, <<"get", "_", "query", "_", "set">>,
     <<"get", "_", "or", "_", "none">>}
QuerySetAttrs ==
    {<<"filter">>, <<"get">>, <<"get", "_", "or", "_", "none">>,
     <<"_", "result", "_", "cache">>, <<"_", "clone">>}
ModelQuerySetAttrs == QuerySetAttrs \cup {<<"published">>}

ClassAttrs(cls) == IF cls = "Model.QuerySet" THEN ModelQuerySetAttrs ELSE QuerySetAttrs

\* variant: the QuerySet of the model is never looked at
GetQuerySetDefaultOnly(mgr) == "QuerySet"

\* getattr(self.model, 'QuerySet', QuerySet)(model=..., using=...)
get_query_set(mgr) == IF mgr.modelHasQuerySet THEN "Model.QuerySet" ELSE "QuerySet"

StartsWith(s, tok) == Len(s) >= 1 /\ s[1] = tok

GetattrCall == [fn |-> "get_query_set", kw |-> EmptyDict]

\* QuerySetManager.__getattr__(attr)
ManagerGetattr(mgr, attr) ==
    IF StartsWith(attr, "_")
    THEN [out |-> Raise("AttributeError"), calls |-> <<>>]
    ELSE LET cls == get_query_set(mgr)
         IN [out |-> IF attr \in ClassAttrs(cls)
                     THEN Return([owner |-> cls, name |-> attr])
                     ELSE Raise("AttributeError"),
             calls |-> <<GetattrCall>>]

\* manager.attr: ordinary lookup first, __getattr__ only when that fails
ManagerLookup(mgr, attr) ==
    IF attr \in mgr.attrs
    THEN [out |-> Return([owner |-> "manager", name |-> attr]), calls |-> <<>>]
    ELSE ManagerGetattr(mgr, attr)

(***************************************************************************)
(* ExternalManager.put.  A model is the sequence of its fields (name and   *)
(* field class); the object built is the dict of the attributes set on it. *)
(***************************************************************************)
IdSuffix == <<"_", "id">>

SetAttr(obj, name, v) ==
    [k \in DOMAIN obj \cup {name} |-> IF k = name THEN v ELSE obj[k]]

NonFkNames(fields) ==
    {fields[i].name : i \in {j \in 1..Len(fields) : fields[j].kind # "ForeignKey"}}

\* variant: data[name + '_id'] tried before data[name]
RECURSIVE PutRelationsIdFirst(_, _, _)
PutRelationsIdFirst(obj, fields, data) ==
    IF fields = <<>> THEN obj
    ELSE LET f == Head(fields)
             o == IF f.kind # "ForeignKey" THEN obj
                  ELSE IF f.name \o IdSuffix \in DOMAIN data
                       THEN SetAttr(obj, f.name \o IdSuffix, data[f.name \o IdSuffix])
                  ELSE IF f.name \in DOMAIN data
                       THEN SetAttr(obj, f.name, data[f.name])
                  ELSE obj
         IN PutRelationsIdFirst(o, Tail(fields), data)

\* lines 205-214: the loop over the foreign keys
RECURSIVE PutRelations(_, _, _)
PutRelations(obj, fields, data) ==
    IF fields = <<>> THEN obj
    ELSE LET f == Head(fields)
             o == IF f.kind # "ForeignKey" THEN obj
                  ELSE IF f.name \in DOMAIN data
                       THEN SetAttr(obj, f.name, data[f.name])
                  ELSE IF f.name \o IdSuffix \in DOMAIN data
                       THEN SetAttr(obj, f.name \o IdSuffix, data[f.name \o IdSuffix])
                  ELSE obj
         IN PutRelations(o, Tail(fields), data)

\* lines 198-214: the object as it is when save() is called
put(fields, data) ==
    LET plain == [k \in DOMAIN data \cap NonFkNames(fields) |-> data[k]]
    IN PutRelations(plain, fields, data)

(***************************************************************************)
(* MapFilterMixin.map_filter and the TimestampMixin filters built on it.   *)
(* template % key with a string key: a template with exactly one %s has it *)
(* replaced by the key, any other count of conversions raises TypeError.   *)
(* The helpers return the outcome and the filter() calls they made.        *)
(***************************************************************************)
Conversions(template) == Cardinality({i \in 1..Len(template) : template[i] = "%s"})

RECURSIVE Format(_, _)
Format(template, key) ==
    IF template = <<>> THEN <<>>
    ELSE (IF Head(template) = "%s" THEN key ELSE <<Head(template)>>)
             \o Format(Tail(template), key)

\* the callbacks a caller passes: the default lambda x: x, and lambda x: x + 1
CallbackOk(callback, v) == callback = "identity" \/ v.ty = "int"
Apply(callback, v) == IF callback = "identity" THEN v ELSE PyInt(v.n + 1)

FilterCall(lookups) == [fn |-> "filter", kw |-> lookups]

map_filter(qs, template, callback, kwargs) ==
    LET lookups == [k2 \in {Format(template, k) : k \in DOMAIN kwargs} |->
                       Apply(callback,
                             kwargs[CHOOSE k \in DOMAIN kwargs : Format(template, k) = k2])]
    IN IF kwargs # EmptyDict /\ Conversions(template) # 1
       THEN [out |-> Raise("TypeError"), calls |-> <<>>]
       ELSE IF \E k \in DOMAIN kwargs : ~CallbackOk(callback, kwargs[k])
       THEN [out |-> Raise("TypeError"), calls |-> <<>>]
       ELSE [out |-> Filter(qs, lookups), calls |-> <<FilterCall(lookups)>>]

DefaultTemplate == <<"%s">>
LtTemplate == <<"%s", "_", "_", "lt">>
GtTemplate == <<"%s", "_", "_", "gt">>

\* variant: an inclusive bound, key__lte
BeforeInclusive(qs, kwargs) ==
    map_filter(qs, <<"%s", "_", "_", "lte">>, "identity", kwargs)

before(qs, kwargs) == map_filter(qs, LtTemplate, "identity", kwargs)
after(qs, kwargs) == map_filter(qs, GtTemplate, "identity", kwargs)
ubefore(qs, kwargs) == map_filter(qs, LtTemplate, "identity", kwargs)
uafter(qs, kwargs) == map_filter(qs, GtTemplate, "identity", kwargs)

(***************************************************************************)
(* PaginatorMixin.paginate: self.all()[offset:offset + limit]              *)
(***************************************************************************)
PaginateOffset == 0
PaginateLimit == 10

Min(a, b) == IF a <= b THEN a ELSE b

paginate(qs, limit, offset) == SubSeq(qs, offset + 1, Min(offset + limit, Len(qs)))

(***************************************************************************)
(* RequestQuerySet.request.  req is None or a request whose GET is a dict  *)
(* of strings.  A local the taken branch did not assign is Unbound, and    *)
(* reading it raises UnboundLocalError.                                    *)
(***************************************************************************)
DefaultOffset == 0
DefaultLimit == 10

ReqNone == [given |-> FALSE, GET |-> EmptyDict]
Req(get) == [given |-> TRUE, GET |-> get]

Failed(e, cs) == [out |-> Raise(e), calls |-> cs]

\* lines 139-153
RequestLocals(req) ==
    IF req.given
    THEN LET ub == DictGet(req.GET, K("ubefore"), PyNone)
             ua == DictGet(req.GET, K("uafter"), PyNone)
         IN [offset |-> DictGet(req.GET, K("offset"), PyInt(DefaultOffset)),
             limit |-> DictGet(req.GET, K("limit"), PyInt(DefaultLimit)),
             ubefore |-> ub,
             before |-> IF ~Truthy(ub) THEN DictGet(req.GET, K("before"), PyNone)
                        ELSE Unbound,
             uafter |-> ua,
             after |-> IF ~Truthy(ua) THEN DictGet(req.GET, K("after"), PyNone)
                       ELSE Unbound]
    ELSE [offset |-> PyInt(DefaultOffset), limit |-> PyInt(DefaultLimit),
          ubefore |-> Unbound, before |-> PyNone,
          uafter |-> Unbound, after |-> PyNone]

\* lines 179-186
RequestPaginate(qs, offset, limit, cs) ==
    IF offset # PyNone /\ ~IntOk(offset) THEN Failed("ValueError", cs)
    ELSE IF limit # PyNone /\ ~IntOk(limit) THEN Failed("ValueError", cs)
    ELSE [out |-> Return(paginate(qs,
                     IF limit # PyNone THEN IntOf(limit) ELSE PaginateLimit,
                     IF offset # PyNone THEN IntOf(offset) ELSE PaginateOffset)),
          calls |-> cs]

\* lines 174-177, then the pagination
RequestLower(qs, L, cs) ==
    IF L.uafter # PyNone
    THEN LET r == uafter(qs, (K("timestamp") :> L.uafter))
         IN IF r.out.kind = "raise" THEN Failed(r.out.exc, cs \o r.calls)
            ELSE RequestPaginate(r.out.val, L.offset, L.limit, cs \o r.calls)
    ELSE IF L.after = Unbound THEN Failed("UnboundLocalError", cs)
    ELSE IF L.after # PyNone
    THEN LET r == after(qs, (K("pk") :> L.after))
         IN IF r.out.kind = "raise" THEN Failed(r.out.exc, cs \o r.calls)
            ELSE RequestPaginate(r.out.val, L.offset, L.limit, cs \o r.calls)
    ELSE RequestPaginate(qs, L.offset, L.limit, cs)

\* lines 166-172, then the lower bound
RequestScope(self_qs, kwargs, L) ==
    LET f == Filter(self_qs, kwargs)
        cs == <<FilterCall(kwargs)>>
    IN IF f.kind = "raise" THEN Failed(f.exc, cs)
       ELSE IF L.ubefore # PyNone
       THEN LET r == ubefore(f.val, (K("timestamp") :> L.ubefore))
            IN IF r.out.kind = "raise" THEN Failed(r.out.exc, cs \o r.calls)
               ELSE RequestLower(r.out.val, L, cs \o r.calls)
       ELSE IF L.before = Unbound THEN Failed("UnboundLocalError", cs)
       ELSE IF L.before # PyNone
       THEN LET r == before(f.val, (K("pk") :> L.before))
            IN IF r.out.kind = "raise" THEN Failed(r.out.exc, cs \o r.calls)
               ELSE RequestLower(r.out.val, L, cs \o r.calls)
       ELSE RequestLower(f.val, L, cs)

\* lines 155-164, then the rest: every kwargs.pop(key, default) evaluates
\* the default before it looks the key up
request(self_qs, req, kwargs) ==
    LET L0 == RequestLocals(req)
        offset == DictGet(kwargs, K("offset"), L0.offset)
        kw1 == DictDel(kwargs, K("offset"))
        limit == DictGet(kw1, K("limit"), L0.limit)
        kw2 == DictDel(kw1, K("limit"))
        ub == DictGet(kw2, K("ubefore"), L0.ubefore)
        kw3 == DictDel(kw2, K("ubefore"))
        ua == DictGet(kw3, K("uafter"), L0.uafter)
        kw4 == DictDel(kw3, K("uafter"))
        aft == IF ~Truthy(ub) THEN DictGet(kw4, K("after"), L0.after) ELSE L0.after
        kw5 == IF ~Truthy(ub) THEN DictDel(kw4, K("after")) ELSE kw4
    IN IF L0.ubefore = Unbound THEN Failed("UnboundLocalError", <<>>)
       ELSE IF ~Truthy(ub) /\ L0.before = Unbound
       THEN Failed("UnboundLocalError", <<>>)
       ELSE IF L0.uafter = Unbound THEN Failed("UnboundLocalError", <<>>)
       ELSE IF ~Truthy(ub) /\ L0.after = Unbound
       THEN Failed("UnboundLocalError", <<>>)
       ELSE RequestScope(self_qs, kw5,
                [offset |-> offset, limit |-> limit, ubefore |-> ub,
                 before |-> L0.before, uafter |-> ua, after |-> aft])

(***************************************************************************)
(* The calls: receivers and arguments are drawn in Init.                   *)
(***************************************************************************)
Fresh == pc = "call" /\ result = NoResult /\ calls = <<>> /\ saved = <<>>

IntVals == {PyInt(k) : k \in 0..MaxTs}

GetKwargs ==
    Dicts({K("pk"), K("timestamp"), K("colour")}, IntVals \cup {PyStr(<<"x">>)}, MaxKwargs)

InitGetOrNone ==
    /\ op = "get_or_none"
    /\ self \in QuerySets
    /\ \E kw \in GetKwargs : args = [kwargs |-> kw]

SelfPks == {PyNone} \cup {PyInt(k) : k \in 1..MaxPk}

PlainQueries ==
    {DefaultQuery, NoneQuery, RaisingQuery("ObjectDoesNotExist"),
     RaisingQuery("MultipleObjectsReturned"), RaisingQuery("ValueError")}

InitVerifyUnique ==
    /\ op = "x_verify_unique"
    /\ \E p \in SelfPks : self = [pk |-> p]
    /\ \/ \E q \in PlainQueries : args = [query |-> q]
       \/ \E qs \in QuerySets, kw \in Dicts({K("timestamp")}, IntVals, MaxKwargs) :
              args = [query |-> GetQuery(qs, kw)]

LookupNames ==
    ManagerAttrs \cup ModelQuerySetAttrs
        \cup {<<"missing">>, <<"_">>, <<"_", "_", "len", "_", "_">>, <<>>}

InitManagerLookup ==
    /\ op = "manager_getattr"
    /\ \E b \in BOOLEAN : self = [attrs |-> ManagerAttrs, modelHasQuerySet |-> b]
    /\ \E a \in LookupNames : args = [attr |-> a]

ExternalFields ==
    << [name |-> <<"id">>, kind |-> "AutoField"],
       [name |-> <<"title">>, kind |-> "CharField"],
       [name |-> <<"author">>, kind |-> "ForeignKey"],
       [name |-> <<"editor">>, kind |-> "ForeignKey"],
       [name |-> <<"profile">>, kind |-> "OneToOneField"] >>

DataKeys ==
    {<<"id">>, <<"title">>, <<"author">>, <<"author", "_", "id">>, <<"editor">>,
     <<"editor", "_", "id">>, <<"profile">>, <<"likes">>}

InitPut ==
    /\ op = "put"
    /\ self = [fields |-> ExternalFields]
    /\ \E d \in Dicts(DataKeys, {PyInt(1), PyInt(2)}, MaxData) : args = [data |-> d]

Templates == {DefaultTemplate, LtTemplate, GtTemplate, <<"x">>, <<"%s", "%s">>}

FilterKwargs == Dicts({K("pk"), K("timestamp"), K("colour")}, IntVals, MaxKwargs)

InitMapFilter ==
    /\ op = "map_filter"
    /\ self \in QuerySets
    /\ \E t \in Templates, cb \in {"identity", "succ"}, kw \in FilterKwargs :
           args = [template |-> t, callback |-> cb, kwargs |-> kw]

InitTimestamp ==
    /\ op \in {"before", "after", "ubefore", "uafter"}
    /\ self \in QuerySets
    /\ \E kw \in FilterKwargs : args = [kwargs |-> kw]

Init ==
    /\ Fresh
    /\ \/ InitGetOrNone
       \/ InitVerifyUnique
       \/ InitManagerLookup
       \/ InitPut
       \/ InitMapFilter
       \/ InitTimestamp

(***************************************************************************)
(* The actions: one per helper, each running the whole call.               *)
(***************************************************************************)
DoGetOrNone ==
    /\ pc = "call" /\ op = "get_or_none"
    /\ result' = get_or_none(self, args.kwargs)
    /\ pc' = "done"
    /\ UNCHANGED <<op, self, args, calls, saved>>

DoVerifyUnique ==
    /\ pc = "call" /\ op = "x_verify_unique"
    /\ result' = x_verify_unique(self.pk, args.query)
    /\ pc' = "done"
    /\ UNCHANGED <<op, self, args, calls, saved>>

DoManagerLookup ==
    /\ pc = "call" /\ op = "manager_getattr"
    /\ LET r == ManagerLookup(self, args.attr)
       IN result' = r.out /\ calls' = r.calls
    /\ pc' = "done"
    /\ UNCHANGED <<op, self, args, saved>>

\* lines 216-217: obj.save(); return obj
DoPut ==
    /\ pc = "call" /\ op = "put"
    /\ LET obj == put(self.fields, args.data)
       IN result' = Return(obj) /\ saved' = Append(saved, obj)
    /\ pc' = "done"
    /\ UNCHANGED <<op, self, args, calls>>

DoMapFilter ==
    /\ pc = "call" /\ op = "map_filter"
    /\ LET r == map_filter(self, args.template, args.callback, args.kwargs)
       IN result' = r.out /\ calls' = r.calls
    /\ pc' = "done"
    /\ UNCHANGED <<op, self, args, saved>>

DoBefore ==
    /\ pc = "call" /\ op = "before"
    /\ LET r == before(self, args.kwargs)
       IN result' = r.out /\ calls' = r.calls
    /\ pc' = "done"
    /\ UNCHANGED <<op, self, args, saved>>

DoAfter ==
    /\ pc = "call" /\ op = "after"
    /\ LET r == after(self, args.kwargs)
       IN result' = r.out /\ calls' = r.calls
    /\ pc' = "done"
    /\ UNCHANGED <<op, self, args, saved>>

DoUBefore ==
    /\ pc = "call" /\ op = "ubefore"
    /\ LET r == ubefore(self, args.kwargs)
       IN result' = r.out /\ calls' = r.calls
    /\ pc' = "done"
    /\ UNCHANGED <<op, self, args, saved>>

DoUAfter ==
    /\ pc = "call" /\ op = "uafter"
    /\ LET r == uafter(self, args.kwargs)
       IN result' = r.out /\ calls' = r.calls
    /\ pc' = "done"
    /\ UNCHANGED <<op, self, args, saved>>

Next ==
    \/ DoGetOrNone
    \/ DoVerifyUnique
    \/ DoManagerLookup
    \/ DoPut
    \/ DoMapFilter
    \/ DoBefore
    \/ DoAfter
    \/ DoUBefore
    \/ DoUAfter

Spec == Init /\ [][Next]_vars

(***************************************************************************)
(* request() has an input space of its own: a queryset, a request or None, *)
(* and keyword arguments, MaxArgs keys in all.                             *)
(***************************************************************************)
RequestKeys ==
    {K("offset"), K("limit"), K("ubefore"), K("before"), K("uafter"), K("after")}
GetVals == {PyStr(<<>>), PyStr(<<"1">>), PyStr(<<"2">>)}
KwVals == {PyNone, PyInt(0), PyInt(2)}

InitRequest ==
    /\ Fresh
    /\ op = "request"
    /\ self \in QuerySets
    /\ \E g \in Dicts(RequestKeys, GetVals, MaxArgs),
          kw \in Dicts(RequestKeys \cup {K("timestamp")}, KwVals, MaxArgs),
          r \in BOOLEAN :
           /\ Cardinality(DOMAIN g) + Cardinality(DOMAIN kw) <= MaxArgs
           /\ (~r => g = EmptyDict)
           /\ args = [req |-> IF r THEN Req(g) ELSE ReqNone, kwargs |-> kw]

DoRequest ==
    /\ pc = "call" /\ op = "request"
    /\ LET r == request(self, args.req, args.kwargs)
       IN result' = r.out /\ calls' = r.calls
    /\ pc' = "done"
    /\ UNCHANGED <<op, self, args, saved>>

NextRequest == DoRequest

SpecRequest == InitRequest /\ [][NextRequest]_vars

(***************************************************************************)
(* Properties.                                                             *)
(***************************************************************************)
Done(o) == pc = "done" /\ op = o

\* the rows of self that a get with args.kwargs selects, stated on the table
GetValid ==
    \A k \in DOMAIN args.kwargs :
        k \in {K("pk"), K("timestamp")} /\ args.kwargs[k].ty = "int"
GetMatches ==
    {i \in 1..Len(self) :
        \A k \in DOMAIN args.kwargs :
            (IF k = K("timestamp") THEN self[i].timestamp ELSE self[i].pk)
                = args.kwargs[k].n}

\* C1: get_or_none returns the single matching object when there is one,
\* returns None exactly when no object matches (get raises DoesNotExist), and
\* lets MultipleObjectsReturned and every other exception of get propagate.
C1_GetOrNone ==
    Done("get_or_none") =>
        /\ (GetValid /\ Cardinality(GetMatches) = 1) =>
               result = Return(self[CHOOSE i \in GetMatches : TRUE])
        /\ (GetValid /\ Cardinality(GetMatches) > 1) =>
               result = Raise("MultipleObjectsReturned")
        /\ ~GetValid => result \in {Raise("FieldError"), Raise("ValueError")}
        /\ result = Return(PyNone) <=> (GetValid /\ GetMatches = {})

C1_Witness ==
    /\ Done("get_or_none")
    /\ self # <<>> /\ args.kwargs # EmptyDict
    /\ GetValid /\ GetMatches = {}
    /\ result = Return(PyNone)

QueryRaises(cls) ==
    LET r == CallQuery(args.query)
    IN r.kind = "raise" /\ ExcMatches(r.exc, cls)

\* C2 as stated: x_verify_unique re-raises both a non-existence exception and
\* a multiple-results exception of query() as an IntegrityError.
C2_BothReraised ==
    (Done("x_verify_unique")
        /\ (QueryRaises("ObjectDoesNotExist") \/ QueryRaises("MultipleObjectsReturned")))
    => result = Raise("IntegrityError")

\* C2 amended: x_verify_unique catches both; a non-existence exception is
\* swallowed and the call returns normally, a multiple-results exception is
\* re-raised as an IntegrityError.
C2_CatchesBoth ==
    Done("x_verify_unique") =>
        /\ QueryRaises("ObjectDoesNotExist") => result = Return(PyNone)
        /\ QueryRaises("MultipleObjectsReturned") => result = Raise("IntegrityError")

C2_Witness ==
    /\ Done("x_verify_unique")
    /\ args.query.kind = "get" /\ args.query.qs # <<>>
    /\ QueryRaises("ObjectDoesNotExist")
    /\ result = Return(PyNone)

\* C3: when query() returns without raising, x_verify_unique raises
\* IntegrityError if and only if the returned object is not None and its pk
\* differs from self.pk, and returns normally otherwise; the default query
\* counts as a query returning None.
C3_IntegrityIffOtherPk ==
    Done("x_verify_unique") =>
        LET r == CallQuery(args.query)
        IN /\ args.query.kind = "default" => result = Return(PyNone)
           /\ r.kind = "return" =>
                  IF r.val # PyNone /\ PyInt(r.val.pk) # self.pk
                  THEN result = Raise("IntegrityError")
                  ELSE result = Return(PyNone)

\* C4: request without a req uses offset 0, limit 10 and no bounds, and
\* returns the first 10 objects of self.filter(kwargs).
C4_NoReqFirstTen ==
    (Done("request") /\ ~args.req.given
        /\ DOMAIN args.kwargs \cap RequestKeys = {}
        /\ Filter(self, args.kwargs).kind = "return")
    => LET f == Filter(self, args.kwargs).val
       IN result = Return(SubSeq(f, 1, Min(10, Len(f))))

\* the value request is given for a key: the keyword argument, else req.GET
Given(k) ==
    IF k \in DOMAIN args.kwargs THEN args.kwargs[k]
    ELSE DictGet(args.req.GET, k, PyNone)
GivenAllNumbers ==
    /\ \A k \in DOMAIN args.kwargs : args.kwargs[k] = PyNone \/ IntOk(args.kwargs[k])
    /\ \A k \in DOMAIN args.req.GET : IntOk(args.req.GET[k])
UpperHolds(row) ==
    IF Given(K("ubefore")) # PyNone THEN row.timestamp < IntOf(Given(K("ubefore")))
    ELSE IF Given(K("before")) # PyNone THEN row.pk < IntOf(Given(K("before")))
    ELSE TRUE
LowerHolds(row) ==
    IF Given(K("uafter")) # PyNone THEN row.timestamp > IntOf(Given(K("uafter")))
    ELSE IF Given(K("after")) # PyNone THEN row.pk > IntOf(Given(K("after")))
    ELSE TRUE

\* C5: request restricts its result by ubefore (timestamp < ubefore) in
\* preference to before (pk < before), and by uafter (timestamp > uafter) in
\* preference to after (pk > after), the two bounds independently.
C5_TimeScope ==
    (Done("request") /\ args.req.given /\ GivenAllNumbers
        /\ K("timestamp") \notin DOMAIN args.kwargs)
    => /\ result.kind = "return"
       /\ \A i \in 1..Len(result.val) :
              UpperHolds(result.val[i]) /\ LowerHolds(result.val[i])

FkNames ==
    {self.fields[i].name :
        i \in {j \in 1..Len(self.fields) : self.fields[j].kind = "ForeignKey"}}
PlainNames ==
    {self.fields[i].name :
        i \in {j \in 1..Len(self.fields) : self.fields[j].kind # "ForeignKey"}}

\* C6: put sets every non-foreign-key field named in data, ignores keys that
\* name no field, sets each foreign key from data[name], else from
\* data[name + '_id'], else leaves it unset, saves the object once and
\* returns the saved object.
C6_Put ==
    Done("put") =>
        LET obj == result.val
            data == args.data
        IN /\ result.kind = "return"
           /\ saved = <<obj>>
           /\ \A f \in PlainNames \cap DOMAIN data :
                  f \in DOMAIN obj /\ obj[f] = data[f]
           /\ \A k \in DOMAIN obj :
                  \/ k \in PlainNames \cup FkNames
                  \/ \E f \in FkNames : k = f \o <<"_", "id">>
           /\ \A k \in DOMAIN obj : k \in DOMAIN data
           /\ \A f \in FkNames :
                  LET fid == f \o <<"_", "id">>
                  IN IF f \in DOMAIN data
                     THEN f \in DOMAIN obj /\ obj[f] = data[f]
                              /\ fid \notin DOMAIN obj
                     ELSE IF fid \in DOMAIN data
                     THEN fid \in DOMAIN obj /\ obj[fid] = data[fid]
                              /\ f \notin DOMAIN obj
                     ELSE f \notin DOMAIN obj /\ fid \notin DOMAIN obj

C6_Witness ==
    /\ Done("put")
    /\ <<"author">> \in DOMAIN args.data
    /\ <<"author", "_", "id">> \in DOMAIN args.data
    /\ <<"likes">> \in DOMAIN args.data
    /\ <<"editor">> \notin DOMAIN args.data
    /\ saved = <<result.val>>
    /\ DOMAIN result.val = {<<"author">>}

\* C7: an attribute the manager lacks is answered by the queryset class of
\* the model (its QuerySet when it has one, the default QuerySet otherwise)
\* when the name does not start with an underscore, and raises AttributeError
\* without building a queryset when it does.
C7_ManagerGetattr ==
    (Done("manager_getattr") /\ args.attr \notin self.attrs) =>
        IF args.attr # <<>> /\ args.attr[1] = "_"
        THEN result = Raise("AttributeError") /\ calls = <<>>
        ELSE /\ calls = <<GetattrCall>>
             /\ LET names == IF self.modelHasQuerySet THEN ModelQuerySetAttrs
                             ELSE QuerySetAttrs
                    cls == IF self.modelHasQuerySet THEN "Model.QuerySet"
                           ELSE "QuerySet"
                IN IF args.attr \in names
                   THEN result = Return([owner |-> cls, name |-> args.attr])
                   ELSE result = Raise("AttributeError")

C7_Witness ==
    /\ Done("manager_getattr")
    /\ self.modelHasQuerySet
    /\ args.attr = <<"published">>
    /\ result = Return([owner |-> "Model.QuerySet", name |-> <<"published">>])

\* the key with the template's single %s replaced by it
Spliced(template, key) ==
    LET p == CHOOSE i \in 1..Len(template) : template[i] = "%s"
    IN SubSeq(template, 1, p - 1) \o key \o SubSeq(template, p + 1, Len(template))
KwargsValid ==
    \A k \in DOMAIN args.kwargs :
        k \in {K("pk"), K("timestamp")} /\ args.kwargs[k].ty = "int"
Below(row) ==
    \A k \in DOMAIN args.kwargs :
        (IF k = K("timestamp") THEN row.timestamp ELSE row.pk) < args.kwargs[k].n
Above(row) ==
    \A k \in DOMAIN args.kwargs :
        (IF k = K("timestamp") THEN row.timestamp ELSE row.pk) > args.kwargs[k].n
OneFilterCall(template) ==
    /\ Len(calls) = 1 /\ calls[1].fn = "filter"
    /\ Cardinality(DOMAIN calls[1].kw) = Cardinality(DOMAIN args.kwargs)
    /\ DOMAIN calls[1].kw = {Spliced(template, k) : k \in DOMAIN args.kwargs}

\* C8: map_filter calls filter once with one lookup per entry of kwargs, keyed
\* template % key and holding callback(val); before and ubefore keep exactly
\* the objects whose fields are strictly below the values (key__lt), after
\* and uafter those strictly above (key__gt), so an object whose field equals
\* the bound is in neither.
C8_MapFilter ==
    /\ (Done("map_filter") /\ Conversions(args.template) = 1) =>
           /\ OneFilterCall(args.template)
           /\ \A k \in DOMAIN args.kwargs :
                  calls[1].kw[Spliced(args.template, k)] =
                      IF args.callback = "succ" THEN PyInt(args.kwargs[k].n + 1)
                      ELSE args.kwargs[k]
    /\ (pc = "done" /\ op \in {"before", "ubefore"}) =>
           /\ OneFilterCall(<<"%s", "_", "_", "lt">>)
           /\ \A k \in DOMAIN args.kwargs :
                  calls[1].kw[k \o <<"_", "_", "lt">>] = args.kwargs[k]
           /\ KwargsValid => result = Return(SelectSeq(self, Below))
    /\ (pc = "done" /\ op \in {"after", "uafter"}) =>
           /\ OneFilterCall(<<"%s", "_", "_", "gt">>)
           /\ \A k \in DOMAIN args.kwargs :
                  calls[1].kw[k \o <<"_", "_", "gt">>] = args.kwargs[k]
           /\ KwargsValid => result = Return(SelectSeq(self, Above))
    /\ (pc = "done" /\ op \in {"before", "ubefore", "after", "uafter"}
            /\ KwargsValid) =>
           \A i \in 1..Len(result.val), k \in DOMAIN args.kwargs :
               (IF k = K("timestamp") THEN result.val[i].timestamp
                ELSE result.val[i].pk) # args.kwargs[k].n

C8_Witness ==
    /\ Done("before")
    /\ KwargsValid /\ args.kwargs # EmptyDict
    /\ result.kind = "return" /\ result.val # <<>>
    /\ \E i \in 1..Len(self) : \A k \in DOMAIN args.kwargs :
           (IF k = K("timestamp") THEN self[i].timestamp ELSE self[i].pk)
               = args.kwargs[k].n
====
